---- MODULE Spec2Model ----
(***************************************************************************)
(* State-machine model of the single-car elevator dispatcher of            *)
(* src/Elevator.py (class Elevator).  The state is the object's fields;    *)
(* every public method (requestFloor, step, reset) is one action that      *)
(* models the whole call, private helpers included.                        *)
(*                                                                         *)
(* The two heapq lists are kept as ascending sequences: an ascending list  *)
(* satisfies the heap invariant, and the class reads its heaps only        *)
(* through sorted(), min() and full scans, so the layout inside the list   *)
(* is not observable.  _downHeap holds the negated floors, as in the code. *)
(***************************************************************************)
EXTENDS Integers, Sequences, FiniteSets, TLC

\* ------------------------------------------------------------------------
\* Bounds of the model
\* ------------------------------------------------------------------------
MaxFloor == 3

MaxSteps == 2

\* ------------------------------------------------------------------------
\* Values
\* ------------------------------------------------------------------------
\* Python's None, for _activeTarget and for the result of the peeks
None == -99

Floors == 0..MaxFloor

\* inputs offered to requestFloor and step, valid and invalid
FloorInputs == (0 - 1)..(MaxFloor + 1)

DirectionInputs == {0 - 1, 0, 1, 2}

StepInputs == (0 - 1)..MaxSteps

\* handler threads of the HTTP service, and the number of handler calls
\* followed when they run concurrently
NumThreads == 2

MaxCalls == 4

Threads == 1..NumThreads

VARIABLES currentFloor, direction, upHeap, downHeap, upSet, downSet,
          activeTarget, lastOp, sweep, threads, calls

vars == <<currentFloor, direction, upHeap, downHeap, upSet, downSet,
          activeTarget, lastOp, sweep, threads, calls>>

\* the object's fields as one value
State ==
  [currentFloor |-> currentFloor, direction |-> direction,
   upHeap |-> upHeap, downHeap |-> downHeap,
   upSet |-> upSet, downSet |-> downSet,
   activeTarget |-> activeTarget]

Abs(x) == IF x < 0 THEN 0 - x ELSE x

\* ------------------------------------------------------------------------
\* Library functions used by the class: sorted(), min(), max(), heapq
\* ------------------------------------------------------------------------
\* insert x into the ascending sequence q, after the elements <= x
RECURSIVE InsertAsc(_, _)
InsertAsc(q, x) ==
  IF q = <<>> THEN <<x>>
  ELSE IF x < Head(q) THEN <<x>> \o q
  ELSE <<Head(q)>> \o InsertAsc(Tail(q), x)

\* sorted(list): insertion sort into ascending order
RECURSIVE Sorted(_)
Sorted(q) ==
  IF q = <<>> THEN <<>> ELSE InsertAsc(Sorted(Tail(q)), Head(q))

Reverse(q) == [i \in 1..Len(q) |-> q[Len(q) + 1 - i]]

\* sorted(set): the elements of a set in ascending order
RECURSIVE SortedSet(_)
SortedSet(S) ==
  IF S = {} THEN <<>>
  ELSE LET m == CHOOSE x \in S : \A y \in S : x <= y
       IN <<m>> \o SortedSet(S \ {m})

\* min(list) / max(list) of a non-empty list
RECURSIVE MinOf(_)
MinOf(q) ==
  IF Len(q) = 1 THEN Head(q)
  ELSE LET r == MinOf(Tail(q)) IN IF Head(q) <= r THEN Head(q) ELSE r

RECURSIVE MaxOf(_)
MaxOf(q) ==
  IF Len(q) = 1 THEN Head(q)
  ELSE LET r == MaxOf(Tail(q)) IN IF Head(q) >= r THEN Head(q) ELSE r

\* heapq.heappush(heap, x)
HeapPush(heap, x) == InsertAsc(heap, x)

\* heapq.heapify(list)
Heapify(q) == Sorted(q)

\* ------------------------------------------------------------------------
\* QUEUE METHODS
\* ------------------------------------------------------------------------
\* _addUp without the duplicate test
AddUpNoCheck(s, floor) ==
  [s EXCEPT !.upHeap = HeapPush(s.upHeap, floor),
            !.upSet = s.upSet \cup {floor}]

\* _addUp(floor): no effect on a floor already in _upSet
AddUp(s, floor) ==
  IF floor \in s.upSet THEN s
  ELSE [s EXCEPT !.upHeap = HeapPush(s.upHeap, floor),
                 !.upSet = s.upSet \cup {floor}]

\* _addDown testing "floor in self._upSet" in place of self._downSet
AddDownChecksUpSet(s, floor) ==
  IF floor \in s.upSet THEN s
  ELSE [s EXCEPT !.downHeap = HeapPush(s.downHeap, (0 - 1) * floor),
                 !.downSet = s.downSet \cup {floor}]

\* _addDown(floor): the heap receives -1 * floor
AddDown(s, floor) ==
  IF floor \in s.downSet THEN s
  ELSE [s EXCEPT !.downHeap = HeapPush(s.downHeap, (0 - 1) * floor),
                 !.downSet = s.downSet \cup {floor}]

\* for floor in q: if floor > cf: return floor  (None when the loop ends)
RECURSIVE FirstAbove(_, _)
FirstAbove(q, cf) ==
  IF q = <<>> THEN None
  ELSE IF Head(q) > cf THEN Head(q)
  ELSE FirstAbove(Tail(q), cf)

\* for negFloor in q: floor = -1 * negFloor; if floor < cf: return floor
RECURSIVE FirstNegBelow(_, _)
FirstNegBelow(q, cf) ==
  IF q = <<>> THEN None
  ELSE IF (0 - 1) * Head(q) < cf THEN (0 - 1) * Head(q)
  ELSE FirstNegBelow(Tail(q), cf)

\* _peekUp with "floor >= currentFloor" in place of "floor > currentFloor"
PeekUpNotStrict(s, cf) == FirstAbove(Sorted(s.upHeap), cf - 1)

\* _peekUp(currentFloor)
PeekUp(s, cf) == FirstAbove(Sorted(s.upHeap), cf)

\* _peekDown(currentFloor)
PeekDown(s, cf) == FirstNegBelow(Sorted(s.downHeap), cf)

\* _peekAnyUp()
PeekAnyUp(s) == IF s.upHeap = <<>> THEN None ELSE MinOf(s.upHeap)

\* _peekAnyDown()
PeekAnyDown(s) ==
  IF s.downHeap = <<>> THEN None ELSE (0 - 1) * MinOf(s.downHeap)

\* the list [-1 * negFloor for negFloor in q]
Negated(q) == [i \in 1..Len(q) |-> (0 - 1) * q[i]]

\* _peekDownAbove returning min(validFloors) in place of max(validFloors)
PeekDownAboveNearest(s, cf) ==
  LET validFloors == SelectSeq(Negated(s.downHeap), LAMBDA f : f > cf)
  IN IF validFloors = <<>> THEN None ELSE MinOf(validFloors)

\* _peekDownAbove(currentFloor)
PeekDownAbove(s, cf) ==
  LET validFloors == SelectSeq(Negated(s.downHeap), LAMBDA f : f > cf)
  IN IF validFloors = <<>> THEN None ELSE MaxOf(validFloors)

\* _peekUpBelow returning max(validFloors) in place of min(validFloors)
PeekUpBelowNearest(s, cf) ==
  LET validFloors == SelectSeq(s.upHeap, LAMBDA f : f < cf)
  IN IF validFloors = <<>> THEN None ELSE MaxOf(validFloors)

\* _peekUpBelow(currentFloor)
PeekUpBelow(s, cf) ==
  LET validFloors == SelectSeq(s.upHeap, LAMBDA f : f < cf)
  IN IF validFloors = <<>> THEN None ELSE MinOf(validFloors)

\* _removeFloor without the rebuild of the heap: the floor leaves the
\* membership set only
RemoveFloorKeepsHeap(s, floor) ==
  IF s.direction > 0 THEN
    IF floor \in s.upSet
    THEN [s EXCEPT !.upSet = s.upSet \ {floor}]
    ELSE s
  ELSE IF s.direction < 0 THEN
    IF floor \in s.downSet
    THEN [s EXCEPT !.downSet = s.downSet \ {floor}]
    ELSE s
  ELSE s

\* _removeFloor moving the floor it removes into the opposite queue
RemoveFloorRequeues(s, floor) ==
  IF s.direction > 0 THEN
    IF floor \in s.upSet
    THEN AddDown([s EXCEPT !.upSet = s.upSet \ {floor},
                           !.upHeap = Heapify(SelectSeq(s.upHeap,
                                                LAMBDA f : f # floor))],
                 floor)
    ELSE s
  ELSE IF s.direction < 0 THEN
    IF floor \in s.downSet
    THEN AddUp([s EXCEPT !.downSet = s.downSet \ {floor},
                         !.downHeap = Heapify(SelectSeq(s.downHeap,
                                                LAMBDA f : f # 0 - floor))],
               floor)
    ELSE s
  ELSE s

\* _removeFloor(floor): only the queue matching the current direction
RemoveFloor(s, floor) ==
  IF s.direction > 0 THEN
    IF floor \in s.upSet
    THEN [s EXCEPT !.upSet = s.upSet \ {floor},
                   !.upHeap = Heapify(SelectSeq(s.upHeap,
                                                LAMBDA f : f # floor))]
    ELSE s
  ELSE IF s.direction < 0 THEN
    IF floor \in s.downSet
    THEN [s EXCEPT !.downSet = s.downSet \ {floor},
                   !.downHeap = Heapify(SelectSeq(s.downHeap,
                                                  LAMBDA f : f # 0 - floor))]
    ELSE s
  ELSE s

\* ------------------------------------------------------------------------
\* VALIDATION METHODS
\* ------------------------------------------------------------------------
\* _validateFloor without "if floor > self.maxFloor"
ValidateFloorNoMax(floor) == ~(floor < 0)

\* _validateFloor: TRUE when it returns, FALSE when it raises ValueError
ValidateFloor(floor) == ~(floor < 0) /\ ~(floor > MaxFloor)

\* _validateDirection with "direction not in (-1, 0, 1, 2)"
ValidateDirectionAcceptsTwo(d) == d \in {0 - 1, 0, 1, 2}

\* _validateDirection
ValidateDirection(d) == d \in {0 - 1, 0, 1}

\* ------------------------------------------------------------------------
\* PRIVATE METHODS
\* ------------------------------------------------------------------------
\* _nextTarget() moving up with priorities 2 and 3 exchanged: the car
\* reverses for a down-call below before collecting the down-calls above
NextTargetUpReverseFirst(s) ==
  LET cf == s.currentFloor
  IN IF PeekUp(s, cf) # None THEN PeekUp(s, cf)
     ELSE IF PeekDown(s, cf) # None THEN PeekDown(s, cf)
     ELSE IF PeekDownAbove(s, cf) # None THEN PeekDownAbove(s, cf)
     ELSE PeekUpBelow(s, cf)

\* _nextTarget() moving up without priority 4: up-queue floors below the
\* car are not looked at
NextTargetUpNoFallback(s) ==
  LET cf == s.currentFloor
      target1 == PeekUp(s, cf)
      target2 == PeekDownAbove(s, cf)
  IN IF target1 # None THEN target1
     ELSE IF target2 # None THEN target2
     ELSE PeekDown(s, cf)

\* _nextTarget(), the car moving up
NextTargetUp(s) ==
  LET cf == s.currentFloor
      target1 == PeekUp(s, cf)
      target2 == PeekDownAbove(s, cf)
      target3 == PeekDown(s, cf)
  IN IF target1 # None THEN target1
     ELSE IF target2 # None THEN target2
     ELSE IF target3 # None THEN target3
     ELSE PeekUpBelow(s, cf)

\* _nextTarget() moving down with priority 3 tried first: the car turns
\* for an up-queue floor above it before going on down
NextTargetDownTurnsFirst(s) ==
  LET cf == s.currentFloor
  IN IF PeekUp(s, cf) # None THEN PeekUp(s, cf)
     ELSE IF PeekDown(s, cf) # None THEN PeekDown(s, cf)
     ELSE IF PeekUpBelow(s, cf) # None THEN PeekUpBelow(s, cf)
     ELSE PeekDownAbove(s, cf)

\* _nextTarget(), the car moving down
NextTargetDown(s) ==
  LET cf == s.currentFloor
      target1 == PeekDown(s, cf)
      target2 == PeekUpBelow(s, cf)
      target3 == PeekUp(s, cf)
  IN IF target1 # None THEN target1
     ELSE IF target2 # None THEN target2
     ELSE IF target3 # None THEN target3
     ELSE PeekDownAbove(s, cf)

\* _nextTarget(), the car idle
NextTargetIdle(s) ==
  LET upNext == PeekAnyUp(s)
      downNext == PeekAnyDown(s)
  IN IF upNext = None /\ downNext = None THEN None
     ELSE IF upNext = None THEN downNext
     ELSE IF downNext = None THEN upNext
     ELSE LET distanceUp == Abs(upNext - s.currentFloor)
              distanceDown == Abs(downNext - s.currentFloor)
          IN IF distanceUp <= distanceDown THEN upNext ELSE downNext

\* _nextTarget()
NextTarget(s) ==
  IF s.direction > 0 THEN NextTargetUp(s)
  ELSE IF s.direction < 0 THEN NextTargetDown(s)
  ELSE NextTargetIdle(s)

\* _advanceOnce with "self.direction = 1" in the downward branch as well
MoveOnceAlwaysUp(s) ==
  IF s.currentFloor < s.activeTarget THEN
    LET a == [s EXCEPT !.direction = 1]
        b == RemoveFloor(a, a.currentFloor)
    IN [b EXCEPT !.currentFloor = b.currentFloor + 1]
  ELSE IF s.currentFloor > s.activeTarget THEN
    LET a == [s EXCEPT !.direction = 1]
        b == RemoveFloor(a, a.currentFloor)
    IN [b EXCEPT !.currentFloor = b.currentFloor - 1]
  ELSE s

\* _advanceOnce with "self._removeFloor(self._activeTarget)": the floor
\* the car drives to is removed in place of the floor it leaves
MoveOnceRemovesTarget(s) ==
  IF s.currentFloor < s.activeTarget THEN
    LET a == [s EXCEPT !.direction = 1]
        b == RemoveFloor(a, a.activeTarget)
    IN [b EXCEPT !.currentFloor = b.currentFloor + 1]
  ELSE IF s.currentFloor > s.activeTarget THEN
    LET a == [s EXCEPT !.direction = 0 - 1]
        b == RemoveFloor(a, a.activeTarget)
    IN [b EXCEPT !.currentFloor = b.currentFloor - 1]
  ELSE s

\* _advanceOnce with the removal after the move: the floor the car arrives
\* at is removed in place of the floor it leaves
MoveOnceRemovesArrival(s) ==
  IF s.currentFloor < s.activeTarget THEN
    LET a == [s EXCEPT !.direction = 1, !.currentFloor = s.currentFloor + 1]
    IN RemoveFloor(a, a.currentFloor)
  ELSE IF s.currentFloor > s.activeTarget THEN
    LET a == [s EXCEPT !.direction = 0 - 1,
                       !.currentFloor = s.currentFloor - 1]
    IN RemoveFloor(a, a.currentFloor)
  ELSE s

\* the two moving branches of _advanceOnce: set the direction, remove the
\* floor the car is leaving, move one floor
MoveOnce(s) ==
  IF s.currentFloor < s.activeTarget THEN
    LET a == [s EXCEPT !.direction = 1]
        b == RemoveFloor(a, a.currentFloor)
    IN [b EXCEPT !.currentFloor = b.currentFloor + 1]
  ELSE IF s.currentFloor > s.activeTarget THEN
    LET a == [s EXCEPT !.direction = 0 - 1]
        b == RemoveFloor(a, a.currentFloor)
    IN [b EXCEPT !.currentFloor = b.currentFloor - 1]
  ELSE s

\* _advanceOnce without "if self._activeTarget is None": the comparison with
\* None that raises TypeError in Python is here a comparison with the
\* integer None, which sends the car below floor 0
AdvanceOnceNoTargetCheck(s) ==
  LET m == MoveOnce(s)
  IN IF m.currentFloor = m.activeTarget
     THEN [m EXCEPT !.activeTarget = NextTarget(m)]
     ELSE m

\* _advanceOnce returning at once when there is no target, without
\* "self.direction = 0"
AdvanceOnceKeepsDirection(s) ==
  IF s.activeTarget = None THEN s
  ELSE LET m == MoveOnce(s)
       IN IF m.currentFloor = m.activeTarget
          THEN [m EXCEPT !.activeTarget = NextTarget(m)]
          ELSE m

\* _advanceOnce setting the direction to Idle when it arrives at the last
\* target
AdvanceOnceIdlesOnArrival(s) ==
  IF s.activeTarget = None THEN [s EXCEPT !.direction = 0]
  ELSE LET m == MoveOnce(s)
       IN IF m.currentFloor = m.activeTarget
          THEN LET target == NextTarget(m)
               IN [m EXCEPT !.activeTarget = target,
                            !.direction = IF target = None THEN 0 ELSE @]
          ELSE m

\* _advanceOnce()
AdvanceOnce(s) ==
  IF s.activeTarget = None THEN [s EXCEPT !.direction = 0]
  ELSE LET m == MoveOnce(s)
       IN IF m.currentFloor = m.activeTarget
          THEN [m EXCEPT !.activeTarget = NextTarget(m)]
          ELSE m

\* for _ in range(steps): self._advanceOnce()
RECURSIVE AdvanceTimes(_, _)
AdvanceTimes(s, n) ==
  IF n <= 0 THEN s ELSE AdvanceTimes(AdvanceOnce(s), n - 1)

\* ------------------------------------------------------------------------
\* PUBLIC METHODS
\* ------------------------------------------------------------------------
\* status(): the snapshot
Status(s) ==
  [currentFloor |-> s.currentFloor,
   direction |-> s.direction,
   queueUp |-> SortedSet(s.upSet),
   queueDown |-> Reverse(SortedSet(s.downSet)),
   activeTarget |-> s.activeTarget]

\* reset() without "self._upHeap = []" and "self._downHeap = []"
ResetStateKeepsHeaps ==
  [currentFloor |-> 0, direction |-> 0,
   upHeap |-> upHeap, downHeap |-> downHeap,
   upSet |-> {}, downSet |-> {},
   activeTarget |-> None]

\* reset(): the fields after the call
ResetState ==
  [currentFloor |-> 0, direction |-> 0,
   upHeap |-> <<>>, downHeap |-> <<>>,
   upSet |-> {}, downSet |-> {},
   activeTarget |-> None]

\* step with "if steps < 0" in place of "if steps < 1"
StepErrorAllowsZero(steps) == IF steps < 0 THEN "InvalidStepCount" ELSE "ok"

\* step(steps): the error raised, "ok" when none
StepError(steps) == IF steps < 1 THEN "InvalidStepCount" ELSE "ok"

\* step(steps) without the closing "direction = 0" of a bulk call
StepStateKeepsDirection(s, steps) ==
  IF steps < 1 THEN s ELSE AdvanceTimes(s, steps)

\* step with "range(1, steps)" in place of "range(steps)": one advance
\* fewer than asked for
StepStateOneShort(s, steps) ==
  IF steps < 1 THEN s
  ELSE LET a == AdvanceTimes(s, steps - 1)
       IN IF a.activeTarget = None /\ steps > 1
          THEN [a EXCEPT !.direction = 0]
          ELSE a

\* step(steps): the fields after the call
StepState(s, steps) ==
  IF steps < 1 THEN s
  ELSE LET a == AdvanceTimes(s, steps)
       IN IF a.activeTarget = None /\ steps > 1
          THEN [a EXCEPT !.direction = 0]
          ELSE a

\* requestFloor calling _validateDirection before _validateFloor
RequestErrorDirectionFirst(floor, d) ==
  IF ~ValidateDirection(d) THEN "InvalidDirection"
  ELSE IF ~ValidateFloor(floor) THEN "InvalidFloor"
  ELSE "ok"

\* requestFloor(floor, direction): the error raised, "ok" when none
RequestError(floor, d) ==
  IF ~ValidateFloor(floor) THEN "InvalidFloor"
  ELSE IF ~ValidateDirection(d) THEN "InvalidDirection"
  ELSE "ok"

\* requestFloor with "self.direction > 0" and "self.direction < 0" in the
\* boarding shortcut: an idle car queues a call at its own floor
IntakeStrictShortcut(s, floor, d) ==
  IF d = 0 THEN
    IF floor > s.currentFloor THEN [queued |-> TRUE, s |-> AddUp(s, floor)]
    ELSE IF floor < s.currentFloor
      THEN [queued |-> TRUE, s |-> AddDown(s, floor)]
    ELSE [queued |-> TRUE, s |-> s]
  ELSE IF d = 1 THEN
    IF floor = s.currentFloor /\ s.direction > 0
    THEN [queued |-> FALSE, s |-> s]
    ELSE [queued |-> TRUE, s |-> AddUp(s, floor)]
  ELSE
    IF floor = s.currentFloor /\ s.direction < 0
    THEN [queued |-> FALSE, s |-> s]
    ELSE [queued |-> TRUE, s |-> AddDown(s, floor)]

\* requestFloor queueing every internal request for another floor in the
\* up queue
IntakeInternalAlwaysUp(s, floor, d) ==
  IF d = 0 THEN
    IF floor # s.currentFloor THEN [queued |-> TRUE, s |-> AddUp(s, floor)]
    ELSE [queued |-> TRUE, s |-> s]
  ELSE IF d = 1 THEN
    IF floor = s.currentFloor /\ s.direction >= 0
    THEN [queued |-> FALSE, s |-> s]
    ELSE [queued |-> TRUE, s |-> AddUp(s, floor)]
  ELSE
    IF floor = s.currentFloor /\ s.direction <= 0
    THEN [queued |-> FALSE, s |-> s]
    ELSE [queued |-> TRUE, s |-> AddDown(s, floor)]

\* requestFloor: the part that queues the floor; queued is FALSE on the two
\* early returns of the boarding shortcut
Intake(s, floor, d) ==
  IF d = 0 THEN
    IF floor > s.currentFloor THEN [queued |-> TRUE, s |-> AddUp(s, floor)]
    ELSE IF floor < s.currentFloor
      THEN [queued |-> TRUE, s |-> AddDown(s, floor)]
    ELSE [queued |-> TRUE, s |-> s]
  ELSE IF d = 1 THEN
    IF floor = s.currentFloor /\ s.direction >= 0
    THEN [queued |-> FALSE, s |-> s]
    ELSE [queued |-> TRUE, s |-> AddUp(s, floor)]
  ELSE
    IF floor = s.currentFloor /\ s.direction <= 0
    THEN [queued |-> FALSE, s |-> s]
    ELSE [queued |-> TRUE, s |-> AddDown(s, floor)]

\* requestFloor without the closing "self._activeTarget = self._nextTarget()"
\* once a target is set
RequestStateKeepsTarget(s, floor, d) ==
  IF RequestError(floor, d) # "ok" THEN s
  ELSE LET r == Intake(s, floor, d)
       IN IF r.queued /\ s.activeTarget = None
          THEN [r.s EXCEPT !.activeTarget = NextTarget(r.s)]
          ELSE r.s

\* requestFloor that also points the car at the target it selects
RequestStatePointsAtTarget(s, floor, d) ==
  IF RequestError(floor, d) # "ok" THEN s
  ELSE LET r == Intake(s, floor, d)
       IN IF r.queued
          THEN LET target == NextTarget(r.s)
               IN [r.s EXCEPT !.activeTarget = target,
                              !.direction =
                                 IF target = None THEN @
                                 ELSE IF target > s.currentFloor THEN 1
                                 ELSE IF target < s.currentFloor THEN 0 - 1
                                 ELSE 0]
          ELSE r.s

\* requestFloor(floor, direction): the fields after the call
RequestState(s, floor, d) ==
  IF RequestError(floor, d) # "ok" THEN s
  ELSE LET r == Intake(s, floor, d)
       IN IF r.queued
          THEN [r.s EXCEPT !.activeTarget = NextTarget(r.s)]
          ELSE r.s

\* ------------------------------------------------------------------------
\* The state machine
\* ------------------------------------------------------------------------
Install(t) ==
  /\ currentFloor' = t.currentFloor
  /\ direction' = t.direction
  /\ upHeap' = t.upHeap
  /\ downHeap' = t.downHeap
  /\ upSet' = t.upSet
  /\ downSet' = t.downSet
  /\ activeTarget' = t.activeTarget

Op(name, floor, d, steps, err) ==
  [op |-> name, floor |-> floor, dir |-> d, steps |-> steps, err |-> err]

\* ------------------------------------------------------------------------
\* Observer of the ordered-sweep scenario of the tests: the car idle with
\* empty queues at floor start, then external-up requests for floors above
\* start only, then single step() calls only.  floors is the set of floors
\* requested, high the highest of them, steps the number of step() calls
\* made; the observer follows the scenario for high - start steps and is
\* off outside of it.
\* ------------------------------------------------------------------------
IdleEmpty(t) ==
  t.direction = 0 /\ t.upSet = {} /\ t.downSet = {} /\ t.activeTarget = None

SweepOff ==
  [on |-> FALSE, start |-> 0, floors |-> {}, high |-> 0, steps |-> 0]

SweepRestart(t) ==
  IF IdleEmpty(t)
  THEN [on |-> TRUE, start |-> t.currentFloor, floors |-> {},
        high |-> t.currentFloor, steps |-> 0]
  ELSE SweepOff

SweepAfterRequest(sw, t, floor, d) ==
  IF sw.on /\ sw.steps = 0 /\ d = 1 /\ ValidateFloor(floor)
           /\ floor > sw.start
  THEN [sw EXCEPT !.floors = sw.floors \cup {floor},
                  !.high = IF floor > sw.high THEN floor ELSE sw.high]
  ELSE SweepRestart(t)

SweepAfterStep(sw, t, steps) ==
  IF sw.on /\ steps = 1 /\ sw.steps < sw.high - sw.start
  THEN [sw EXCEPT !.steps = sw.steps + 1]
  ELSE SweepRestart(t)

\* a thread of the pool that runs no handler
IdleThread ==
  [pc |-> "idle", floor |-> 0, queue |-> "none", move |-> 0,
   steps |-> 0, left |-> 0]

\* Elevator.__init__
Init ==
  /\ currentFloor = 0
  /\ direction = 0
  /\ upHeap = <<>>
  /\ downHeap = <<>>
  /\ upSet = {}
  /\ downSet = {}
  /\ activeTarget = None
  /\ lastOp = Op("init", 0, 0, 0, "ok")
  /\ sweep = SweepRestart(ResetState)
  /\ threads = [t \in Threads |-> IdleThread]
  /\ calls = 0

RequestFloor(floor, d) ==
  LET after == RequestState(State, floor, d)
  IN /\ Install(after)
     /\ lastOp' = Op("request", floor, d, 0, RequestError(floor, d))
     /\ sweep' = SweepAfterRequest(sweep, after, floor, d)
     /\ UNCHANGED <<threads, calls>>

Step(steps) ==
  LET after == StepState(State, steps)
  IN /\ Install(after)
     /\ lastOp' = Op("step", 0, 0, steps, StepError(steps))
     /\ sweep' = SweepAfterStep(sweep, after, steps)
     /\ UNCHANGED <<threads, calls>>

Reset ==
  /\ Install(ResetState)
  /\ lastOp' = Op("reset", 0, 0, 0, "ok")
  /\ sweep' = SweepRestart(ResetState)
  /\ UNCHANGED <<threads, calls>>

Next ==
  \/ \E floor \in FloorInputs, d \in DirectionInputs : RequestFloor(floor, d)
  \/ \E steps \in StepInputs : Step(steps)
  \/ Reset

Spec == Init /\ [][Next]_vars

\* the caller keeps calling step()
LiveSpec ==
  Init /\ [][Next]_vars /\ WF_vars(\E steps \in 1..MaxSteps : Step(steps))

\* ------------------------------------------------------------------------
\* The handlers run concurrently.  main.py declares the handlers with "def"
\* and shares one Elevator between them without a lock, so the service runs
\* each call on a thread of a pool and the calls interleave.  A thread is
\* followed from one point where the interpreter can hand over to another
\* thread to the next: the entry of a method and the return of a call to a
\* built-in (heappush, set.add, set.remove, heapify, set()) or the end of a
\* loop iteration.  Between two such points the statements of a thread are
\* taken as one step, so every behaviour below is a schedule of the threads.
\* pc is the point a thread stands at; floor, queue and move are the
\* locals of the method it runs, steps and left the argument of step() and
\* the iterations of its loop still to run.
\* ------------------------------------------------------------------------
\* requestFloor, lines 72-102: what the call does after validating its
\* arguments and reading currentFloor and direction
Classify(s, floor, d) ==
  IF RequestError(floor, d) # "ok" THEN "raise"
  ELSE IF d = 0 THEN
    IF floor > s.currentFloor THEN "up"
    ELSE IF floor < s.currentFloor THEN "down"
    ELSE "none"
  ELSE IF d = 1 THEN
    IF floor = s.currentFloor /\ s.direction >= 0 THEN "return" ELSE "up"
  ELSE
    IF floor = s.currentFloor /\ s.direction <= 0 THEN "return" ELSE "down"

\* a handler thread enters requestFloor(floor, d)
CallRequest(t, floor, d) ==
  /\ threads[t].pc = "idle" /\ calls < MaxCalls
  /\ calls' = calls + 1
  /\ UNCHANGED <<lastOp, sweep>>
  /\ Install(State)
  /\ LET c == Classify(State, floor, d)
     IN threads' = [threads EXCEPT ![t] =
          IF c \in {"raise", "return"} THEN IdleThread
          ELSE IF c = "none" THEN [IdleThread EXCEPT !.pc = "target"]
          ELSE [IdleThread EXCEPT !.pc = "push", !.floor = floor,
                                  !.queue = c]]

\* _addUp / _addDown: the duplicate test and heappush
AddPush(t) ==
  /\ threads[t].pc = "push"
  /\ UNCHANGED <<calls, lastOp, sweep>>
  /\ LET floor == threads[t].floor
     IN IF threads[t].queue = "up" THEN
          IF floor \in upSet
          THEN /\ Install(State)
               /\ threads' = [threads EXCEPT ![t].pc = "target"]
          ELSE /\ Install([State EXCEPT !.upHeap = HeapPush(upHeap, floor)])
               /\ threads' = [threads EXCEPT ![t].pc = "add"]
        ELSE
          IF floor \in downSet
          THEN /\ Install(State)
               /\ threads' = [threads EXCEPT ![t].pc = "target"]
          ELSE /\ Install([State EXCEPT
                             !.downHeap = HeapPush(downHeap, (0 - 1) * floor)])
               /\ threads' = [threads EXCEPT ![t].pc = "add"]

\* _addUp / _addDown: the set.add that follows heappush
AddSet(t) ==
  /\ threads[t].pc = "add"
  /\ UNCHANGED <<calls, lastOp, sweep>>
  /\ IF threads[t].queue = "up"
     THEN Install([State EXCEPT !.upSet = upSet \cup {threads[t].floor}])
     ELSE Install([State EXCEPT !.downSet = downSet \cup {threads[t].floor}])
  /\ threads' = [threads EXCEPT ![t].pc = "target"]

\* requestFloor, line 105: self._activeTarget = self._nextTarget()
Retarget(t) ==
  /\ threads[t].pc = "target"
  /\ UNCHANGED <<calls, lastOp, sweep>>
  /\ Install([State EXCEPT !.activeTarget = NextTarget(State)])
  /\ threads' = [threads EXCEPT ![t] = IdleThread]

\* a handler thread enters step(steps)
CallStep(t, steps) ==
  /\ threads[t].pc = "idle" /\ calls < MaxCalls
  /\ calls' = calls + 1
  /\ UNCHANGED <<lastOp, sweep>>
  /\ Install(State)
  /\ threads' = [threads EXCEPT ![t] =
       IF StepError(steps) # "ok" THEN IdleThread
       ELSE [IdleThread EXCEPT !.pc = "advance", !.steps = steps,
                               !.left = steps]]

\* _advanceOnce, lines 115-124 and 130-131: up to the call of _removeFloor;
\* lines 138-140 when the car stands on its target
Advance(t) ==
  /\ threads[t].pc = "advance" /\ threads[t].left > 0
  /\ UNCHANGED <<calls, lastOp, sweep>>
  /\ IF activeTarget = None THEN
       /\ Install([State EXCEPT !.direction = 0])
       /\ threads' = [threads EXCEPT ![t].left = @ - 1]
     ELSE IF currentFloor < activeTarget THEN
       /\ Install([State EXCEPT !.direction = 1])
       /\ threads' = [threads EXCEPT ![t].pc = "remove", ![t].move = 1]
     ELSE IF currentFloor > activeTarget THEN
       /\ Install([State EXCEPT !.direction = 0 - 1])
       /\ threads' = [threads EXCEPT ![t].pc = "remove", ![t].move = 0 - 1]
     ELSE
       /\ Install([State EXCEPT !.activeTarget = NextTarget(State)])
       /\ threads' = [threads EXCEPT ![t].left = @ - 1]

\* _advanceOnce, lines 127 / 134 and 138-140: the move and the arrival
MoveArrive(s, move) ==
  LET m == [s EXCEPT !.currentFloor = s.currentFloor + move]
  IN IF m.currentFloor = m.activeTarget
     THEN [m EXCEPT !.activeTarget = NextTarget(m)]
     ELSE m

\* _removeFloor(self.currentFloor), lines 300-303 / 308-311: up to the
\* return of set.remove; when nothing is removed the method returns and
\* _advanceOnce goes on to its end
Remove(t) ==
  /\ threads[t].pc = "remove"
  /\ UNCHANGED <<calls, lastOp, sweep>>
  /\ IF direction > 0 /\ currentFloor \in upSet THEN
       /\ Install([State EXCEPT !.upSet = upSet \ {currentFloor}])
       /\ threads' = [threads EXCEPT ![t].pc = "rebuild",
                                     ![t].floor = currentFloor,
                                     ![t].queue = "up"]
     ELSE IF direction < 0 /\ currentFloor \in downSet THEN
       /\ Install([State EXCEPT !.downSet = downSet \ {currentFloor}])
       /\ threads' = [threads EXCEPT ![t].pc = "rebuild",
                                     ![t].floor = currentFloor,
                                     ![t].queue = "down"]
     ELSE
       /\ Install(MoveArrive(State, threads[t].move))
       /\ threads' = [threads EXCEPT ![t].pc = "advance", ![t].left = @ - 1]

\* _removeFloor, lines 305-306 / 313-314: the heap rebuilt without the floor
Rebuild(t) ==
  /\ threads[t].pc = "rebuild"
  /\ UNCHANGED <<calls, lastOp, sweep>>
  /\ LET floor == threads[t].floor
     IN IF threads[t].queue = "up"
        THEN Install([State EXCEPT !.upHeap =
               Heapify(SelectSeq(upHeap, LAMBDA f : f # floor))])
        ELSE Install([State EXCEPT !.downHeap =
               Heapify(SelectSeq(downHeap, LAMBDA f : f # 0 - floor))])
  /\ threads' = [threads EXCEPT ![t].pc = "move"]

\* _advanceOnce after _removeFloor has rebuilt a heap
Move(t) ==
  /\ threads[t].pc = "move"
  /\ UNCHANGED <<calls, lastOp, sweep>>
  /\ Install(MoveArrive(State, threads[t].move))
  /\ threads' = [threads EXCEPT ![t].pc = "advance", ![t].left = @ - 1]

\* step, lines 60-63: after the loop
Close(t) ==
  /\ threads[t].pc = "advance" /\ threads[t].left = 0
  /\ UNCHANGED <<calls, lastOp, sweep>>
  /\ IF activeTarget = None /\ threads[t].steps > 1
     THEN Install([State EXCEPT !.direction = 0])
     ELSE Install(State)
  /\ threads' = [threads EXCEPT ![t] = IdleThread]

\* a handler thread enters reset(): lines 42-43, up to the return of set()
CallReset(t) ==
  /\ threads[t].pc = "idle" /\ calls < MaxCalls
  /\ calls' = calls + 1
  /\ UNCHANGED <<lastOp, sweep>>
  /\ Install([State EXCEPT !.currentFloor = 0, !.direction = 0])
  /\ threads' = [threads EXCEPT ![t] = [IdleThread EXCEPT !.pc = "resetUp"]]

\* reset, line 44: self._upSet receives the new set
ResetUpSet(t) ==
  /\ threads[t].pc = "resetUp"
  /\ UNCHANGED <<calls, lastOp, sweep>>
  /\ Install([State EXCEPT !.upSet = {}])
  /\ threads' = [threads EXCEPT ![t].pc = "resetRest"]

\* reset, lines 45-48
ResetRest(t) ==
  /\ threads[t].pc = "resetRest"
  /\ UNCHANGED <<calls, lastOp, sweep>>
  /\ Install([State EXCEPT !.downSet = {}, !.upHeap = <<>>,
                           !.downHeap = <<>>, !.activeTarget = None])
  /\ threads' = [threads EXCEPT ![t] = IdleThread]

ConcNext ==
  \/ \E t \in Threads, floor \in FloorInputs, d \in DirectionInputs :
       CallRequest(t, floor, d)
  \/ \E t \in Threads : AddPush(t)
  \/ \E t \in Threads : AddSet(t)
  \/ \E t \in Threads : Retarget(t)
  \/ \E t \in Threads, steps \in StepInputs : CallStep(t, steps)
  \/ \E t \in Threads : Advance(t)
  \/ \E t \in Threads : Remove(t)
  \/ \E t \in Threads : Rebuild(t)
  \/ \E t \in Threads : Move(t)
  \/ \E t \in Threads : Close(t)
  \/ \E t \in Threads : CallReset(t)
  \/ \E t \in Threads : ResetUpSet(t)
  \/ \E t \in Threads : ResetRest(t)

\* the service under concurrent calls
ConcSpec == Init /\ [][ConcNext]_vars

\* ------------------------------------------------------------------------
\* Well-formedness of the state
\* ------------------------------------------------------------------------
TypeOK ==
  /\ currentFloor \in Floors
  /\ direction \in {0 - 1, 0, 1}
  /\ upSet \subseteq Floors
  /\ downSet \subseteq Floors
  /\ activeTarget \in Floors \cup {None}

\* ------------------------------------------------------------------------
\* Vocabulary of the properties
\* ------------------------------------------------------------------------
\* the last call was a step: holding from some state on, it says that no
\* further requestFloor or reset call occurs
OnlySteps == lastOp.op = "step"

\* the transition is a step(1) call
SingleStep == lastOp'.op = "step" /\ lastOp'.steps = 1

Quiescent == upSet = {} /\ downSet = {} /\ activeTarget = None

Queued(f) == f \in upSet \/ f \in downSet

\* ------------------------------------------------------------------------
\* C1: once requestFloor and reset are no longer called and step() keeps
\* being called, the car eventually has both queues empty and no active
\* target.
\* ------------------------------------------------------------------------
C1_EventuallyQuiescent == []<>(~OnlySteps \/ Quiescent)

\* ------------------------------------------------------------------------
\* C2: every queued floor is eventually serviced: with only steps from
\* then on, the car eventually stands on the floor and the floor leaves the
\* queue it was added to.
\* ------------------------------------------------------------------------
C2_EveryRequestServiced ==
  \A f \in Floors :
    /\ [](f \in upSet /\ []OnlySteps
            => <>(currentFloor = f) /\ <>(f \notin upSet))
    /\ [](f \in downSet /\ []OnlySteps
            => <>(currentFloor = f) /\ <>(f \notin downSet))

\* ------------------------------------------------------------------------
\* C3: with a non-null activeTarget a single step() moves the car exactly
\* one floor toward it; no step with a non-null target leaves currentFloor
\* unchanged.
\* ------------------------------------------------------------------------
C3_StepApproachesTarget ==
  [][SingleStep /\ activeTarget # None
       => /\ currentFloor' # currentFloor
          /\ Abs(currentFloor' - activeTarget)
               = Abs(currentFloor - activeTarget) - 1]_vars

\* ------------------------------------------------------------------------
\* C4: right after a step in which currentFloor becomes equal to
\* activeTarget, that floor is not in the queue matching the direction just
\* travelled.
\* ------------------------------------------------------------------------
C4_ArrivalRemovesFloor ==
  [][SingleStep /\ currentFloor' # currentFloor
                /\ currentFloor' = activeTarget
       => /\ currentFloor' > currentFloor => currentFloor' \notin upSet'
          /\ currentFloor' < currentFloor => currentFloor' \notin downSet']_vars

\* ------------------------------------------------------------------------
\* C5: activeTarget is none if and only if both queues are empty and
\* direction is Idle.
\* ------------------------------------------------------------------------
C5_NoTargetIffEmptyIdle ==
  activeTarget = None <=> (upSet = {} /\ downSet = {} /\ direction = 0)

\* ------------------------------------------------------------------------
\* C6: while direction is Idle no queued floor equals currentFloor.
\* ------------------------------------------------------------------------
C6_IdleFloorNotQueued == direction = 0 => ~Queued(currentFloor)

\* ------------------------------------------------------------------------
\* C7: ordered sweep.  From idle with empty queues at floor s, after
\* external-up requests for floors above s in any order, every single
\* step() raises currentFloor by one (so the requested floors are reached in
\* ascending order) and after exactly (highest - s) steps the car stands on
\* the highest requested floor.
\* ------------------------------------------------------------------------
SweepRising ==
  sweep.on /\ sweep.steps >= 1 => currentFloor = sweep.start + sweep.steps

SweepDone == sweep.on /\ sweep.steps >= 1 /\ sweep.steps = sweep.high - sweep.start

\* C7 as claimed: at the end of the sweep the car is idle with no target
C7_OrderedSweepEndsIdle ==
  /\ SweepRising
  /\ SweepDone => /\ currentFloor = sweep.high
                  /\ activeTarget = None
                  /\ direction = 0

\* C7 as amended: at the end of the sweep the car has no target and its
\* direction is still Up
C7_OrderedSweep ==
  /\ SweepRising
  /\ SweepDone => /\ currentFloor = sweep.high
                  /\ activeTarget = None
                  /\ direction = 1

\* a sweep over three requested floors has ended on the highest
C7_Witness ==
  /\ SweepDone
  /\ Cardinality(sweep.floors) >= 3
  /\ currentFloor = sweep.high
  /\ activeTarget = None

\* ------------------------------------------------------------------------
\* C8: look-ahead before reversal.  With direction Up and a floor queued
\* strictly above currentFloor, activeTarget is strictly above currentFloor
\* and the next step raises currentFloor; with direction Down and a floor
\* queued strictly below, activeTarget is strictly below and the next step
\* lowers currentFloor.
\* ------------------------------------------------------------------------
QueuedAbove == \E f \in upSet \cup downSet : f > currentFloor

QueuedBelow == \E f \in upSet \cup downSet : f < currentFloor

C8_LookAhead ==
  [][/\ direction = 1 /\ QueuedAbove
          => /\ activeTarget # None
             /\ activeTarget > currentFloor
             /\ SingleStep => currentFloor' = currentFloor + 1
     /\ direction = 0 - 1 /\ QueuedBelow
          => /\ activeTarget # None
             /\ activeTarget < currentFloor
             /\ SingleStep => currentFloor' = currentFloor - 1]_vars

\* a single step has just carried the car upward past a pending floor below
\* it, toward a down-call above it
C8_Witness ==
  /\ lastOp.op = "step" /\ lastOp.steps = 1
  /\ direction = 1
  /\ \E f \in downSet : f > currentFloor
  /\ \E f \in downSet : f < currentFloor
  /\ activeTarget > currentFloor

\* ------------------------------------------------------------------------
\* C9: idle selection.  With direction Idle and a queue non-empty the
\* Scheduler selects the closer of the up queue's floor nearest to
\* currentFloor and the down queue's floor nearest to currentFloor, the
\* up-queue floor on a tie; the selected floor has minimal distance among
\* all queued floors.
\* ------------------------------------------------------------------------
Dist(f) == Abs(f - currentFloor)

\* distance of the floor of S nearest to currentFloor (S non-empty)
NearestDist(S) == CHOOSE n \in {Dist(f) : f \in S} : \A f \in S : n <= Dist(f)

C9_IdleSelectsNearest ==
  direction = 0 /\ upSet \cup downSet # {} =>
    LET t == NextTarget(State)
        upWins == /\ upSet # {}
                  /\ downSet = {} \/ NearestDist(upSet) <= NearestDist(downSet)
    IN /\ t \in upSet \cup downSet
       /\ \A f \in upSet \cup downSet : Dist(t) <= Dist(f)
       /\ upWins => t \in upSet /\ Dist(t) = NearestDist(upSet)
       /\ ~upWins => t \in downSet /\ Dist(t) = NearestDist(downSet)

\* ------------------------------------------------------------------------
\* C10: with direction Up the Scheduler returns the first existing one of
\* (1) the smallest up-queue floor above currentFloor, (2) the largest
\* down-queue floor above, (3) the largest down-queue floor below, (4) the
\* smallest up-queue floor below; none exactly when all four are absent.
\* ------------------------------------------------------------------------
Smallest(S) == IF S = {} THEN None ELSE CHOOSE x \in S : \A y \in S : x <= y

Largest(S) == IF S = {} THEN None ELSE CHOOSE x \in S : \A y \in S : x >= y

UpAbove == {f \in upSet : f > currentFloor}

DownAbove == {f \in downSet : f > currentFloor}

DownBelow == {f \in downSet : f < currentFloor}

UpBelow == {f \in upSet : f < currentFloor}

C10_UpPriorities ==
  direction = 1 =>
    /\ NextTarget(State) =
         IF UpAbove # {} THEN Smallest(UpAbove)
         ELSE IF DownAbove # {} THEN Largest(DownAbove)
         ELSE IF DownBelow # {} THEN Largest(DownBelow)
         ELSE Smallest(UpBelow)
    /\ NextTarget(State) = None
         <=> UpAbove = {} /\ DownAbove = {} /\ DownBelow = {} /\ UpBelow = {}

\* a request has just made the Scheduler, moving up, fall through to the
\* fourth candidate with two up-queue floors below the car
C10_Witness ==
  /\ lastOp.op = "request" /\ lastOp.err = "ok"
  /\ direction = 1
  /\ UpAbove = {} /\ DownAbove = {} /\ DownBelow = {}
  /\ Cardinality(UpBelow) >= 2
  /\ activeTarget = Smallest(UpBelow)

\* ------------------------------------------------------------------------
\* C11: with direction Down the Scheduler returns the first existing one of
\* (1) the nearest down-queue floor below currentFloor, (2) an up-queue
\* floor below, (3) the nearest up-queue floor above, (4) the farthest
\* down-queue floor above; none exactly when all four are absent.
\* ------------------------------------------------------------------------
DownChoice(upBelow) ==
  IF DownBelow # {} THEN Largest(DownBelow)
  ELSE IF UpBelow # {} THEN upBelow
  ELSE IF UpAbove # {} THEN Smallest(UpAbove)
  ELSE Largest(DownAbove)

AllFourAbsent ==
  UpAbove = {} /\ DownAbove = {} /\ DownBelow = {} /\ UpBelow = {}

\* C11 as claimed: candidate (2) is the nearest up-queue floor below
C11_DownPrioritiesNearest ==
  direction = 0 - 1 =>
    /\ NextTarget(State) = DownChoice(Largest(UpBelow))
    /\ NextTarget(State) = None <=> AllFourAbsent

\* C11 as amended: candidate (2) is the lowest up-queue floor below
C11_DownPriorities ==
  direction = 0 - 1 =>
    /\ NextTarget(State) = DownChoice(Smallest(UpBelow))
    /\ NextTarget(State) = None <=> AllFourAbsent

\* a request has just made the Scheduler, moving down, choose among two
\* up-queue floors below the car
C11_Witness ==
  /\ lastOp.op = "request" /\ lastOp.err = "ok"
  /\ direction = 0 - 1
  /\ DownBelow = {}
  /\ Cardinality(UpBelow) >= 2
  /\ activeTarget = Smallest(UpBelow)

\* ------------------------------------------------------------------------
\* C12: direction and target.  As claimed: whenever activeTarget is
\* non-null, direction agrees with the sign of activeTarget - currentFloor.
\* As amended: a single step() taken with a non-null activeTarget other
\* than currentFloor sets direction to that sign.
\* ------------------------------------------------------------------------
Sign(x) == IF x > 0 THEN 1 ELSE IF x < 0 THEN 0 - 1 ELSE 0

C13_NoTargetMeansIdle == activeTarget = None => direction = 0

C13_NoTargetAfterStep ==
  [][lastOp'.op = "step" /\ lastOp'.err = "ok" /\ activeTarget' = None
       => IF lastOp'.steps > 1 \/ activeTarget = None
          THEN direction' = 0
          ELSE /\ currentFloor' # currentFloor
               /\ direction' = Sign(currentFloor' - currentFloor)]_vars

\* a bulk step has just arrived at the last pending target
C13_Witness ==
  /\ lastOp.op = "step" /\ lastOp.steps > 1
  /\ activeTarget = None
  /\ direction = 0
  /\ currentFloor > 0
  /\ Queued(currentFloor)

\* ------------------------------------------------------------------------
\* Vocabulary of the claims about requestFloor
\* ------------------------------------------------------------------------
\* the transition is a requestFloor call that raised nothing
Requested == lastOp'.op = "request" /\ lastOp'.err = "ok"

NewInUp(f) == f \notin upSet /\ f \in upSet'

NewInDown(f) == f \notin downSet /\ f \in downSet'

\* the car is moving toward its target
MovingToTarget ==
  /\ activeTarget # None
  /\ \/ direction = 1 /\ activeTarget > currentFloor
     \/ direction = 0 - 1 /\ activeTarget < currentFloor

\* f lies strictly between the car and its target
Between(f) ==
  \/ currentFloor < f /\ f < activeTarget
  \/ activeTarget < f /\ f < currentFloor

TargetStaysQueued ==
  /\ activeTarget \in upSet => activeTarget \in upSet'
  /\ activeTarget \in downSet => activeTarget \in downSet'

C15_BoardingShortcut ==
  [][Requested /\ lastOp'.floor = currentFloor
       /\ \/ lastOp'.dir = 1 /\ direction >= 0
          \/ lastOp'.dir = 0 - 1 /\ direction <= 0
       => State' = State]_vars

\* an external up call at the car's floor has just been made while the car
\* moves up toward a target, and the floor is in no queue
C15_Witness ==
  /\ lastOp.op = "request" /\ lastOp.err = "ok" /\ lastOp.dir = 1
  /\ lastOp.floor = currentFloor
  /\ direction = 1
  /\ activeTarget # None
  /\ ~Queued(currentFloor)

\* ------------------------------------------------------------------------
\* C16: internal requests.  requestFloor(f, 0) puts f in the up queue when
\* f > currentFloor, in the down queue when f < currentFloor, leaves both
\* queues unchanged when f = currentFloor, and never touches the other
\* queue.
\* ------------------------------------------------------------------------
C16_InternalClassification ==
  [][Requested /\ lastOp'.dir = 0
       => LET f == lastOp'.floor
          IN /\ f > currentFloor
                  => upSet' = upSet \cup {f} /\ downSet' = downSet
             /\ f < currentFloor
                  => downSet' = downSet \cup {f} /\ upSet' = upSet
             /\ f = currentFloor
                  => upSet' = upSet /\ downSet' = downSet]_vars

\* an internal request for a floor below the car has just been queued in
\* the down queue only
C16_Witness ==
  /\ lastOp.op = "request" /\ lastOp.err = "ok" /\ lastOp.dir = 0
  /\ lastOp.floor < currentFloor
  /\ lastOp.floor \in downSet
  /\ lastOp.floor \notin upSet

\* ------------------------------------------------------------------------
\* C17: external requests.  After requestFloor(f, 1) the floor is in the up
\* queue unless f = currentFloor and direction is Idle or Up; after
\* requestFloor(f, -1) it is in the down queue unless f = currentFloor and
\* direction is Idle or Down.  A floor other than currentFloor requested in
\* both directions is in both queues.
\* ------------------------------------------------------------------------
C17_ExternalQueued ==
  [][Requested
       => LET f == lastOp'.floor
          IN /\ lastOp'.dir = 1 /\ ~(f = currentFloor /\ direction >= 0)
                  => f \in upSet'
             /\ lastOp'.dir = 0 - 1 /\ ~(f = currentFloor /\ direction <= 0)
                  => f \in downSet'
             /\ lastOp'.dir = 1 /\ f # currentFloor /\ f \in downSet
                  => f \in upSet' /\ f \in downSet'
             /\ lastOp'.dir = 0 - 1 /\ f # currentFloor /\ f \in upSet
                  => f \in upSet' /\ f \in downSet']_vars

\* an external down call has just put a floor other than the car's in the
\* down queue while it is in the up queue too
C17_Witness ==
  /\ lastOp.op = "request" /\ lastOp.err = "ok" /\ lastOp.dir = 0 - 1
  /\ lastOp.floor # currentFloor
  /\ lastOp.floor \in upSet
  /\ lastOp.floor \in downSet

\* ------------------------------------------------------------------------
\* C18: a floor queued in both queues is one stop: when the car arrives at
\* it, the floor is cleared from both queues.
\* ------------------------------------------------------------------------
C18_ArrivalClearsBothQueues ==
  [][SingleStep /\ currentFloor' # currentFloor
                /\ currentFloor' = activeTarget
                /\ currentFloor' \in upSet /\ currentFloor' \in downSet
       => currentFloor' \notin upSet' /\ currentFloor' \notin downSet']_vars

\* ------------------------------------------------------------------------
\* C19: duplicate requests.  requestFloor(f, d) issued again right after
\* itself leaves both queues as the first call left them, and no floor
\* occurs twice in queueUp or in queueDown.
\* ------------------------------------------------------------------------
NoDuplicate(q) == \A i, j \in 1..Len(q) : i # j => q[i] # q[j]

C19_DuplicateIdempotent ==
  /\ NoDuplicate(upHeap) /\ NoDuplicate(downHeap)
  /\ NoDuplicate(Status(State).queueUp)
  /\ NoDuplicate(Status(State).queueDown)
  /\ lastOp.op = "request" /\ lastOp.err = "ok"
       => LET again == RequestState(State, lastOp.floor, lastOp.dir)
          IN /\ again.upSet = upSet /\ again.downSet = downSet
             /\ again.upHeap = upHeap /\ again.downHeap = downHeap

\* an external up call for a floor has just been made with that floor and
\* another one in the up queue
C19_Witness ==
  /\ lastOp.op = "request" /\ lastOp.err = "ok" /\ lastOp.dir = 1
  /\ lastOp.floor \in upSet
  /\ Len(upHeap) >= 2
  /\ RequestState(State, lastOp.floor, lastOp.dir).upHeap = upHeap

\* ------------------------------------------------------------------------
\* C20: reset() yields the construction-time state: currentFloor 0,
\* direction Idle, both heaps and both membership sets empty, no target.
\* ------------------------------------------------------------------------
C20_ResetRestoresInitial ==
  lastOp.op = "reset" =>
    /\ currentFloor = 0 /\ direction = 0
    /\ upSet = {} /\ downSet = {}
    /\ upHeap = <<>> /\ downHeap = <<>>
    /\ activeTarget = None
    /\ Status(State) = [currentFloor |-> 0, direction |-> 0,
                        queueUp |-> <<>>, queueDown |-> <<>>,
                        activeTarget |-> None]

\* reset() has just been called
C20_Witness == lastOp.op = "reset" /\ IdleEmpty(State)

\* ------------------------------------------------------------------------
\* C21: requestFloor with a floor below 0 or above maxFloor fails with the
\* invalid-floor error whatever the direction argument, valid or not, and
\* leaves currentFloor, direction, both queues and activeTarget unchanged.
\* ------------------------------------------------------------------------
C21_InvalidFloorRejected ==
  [][lastOp'.op = "request"
       /\ (lastOp'.floor < 0 \/ lastOp'.floor > MaxFloor)
       => lastOp'.err = "InvalidFloor" /\ State' = State]_vars

\* a request for a floor above maxFloor with a direction outside {-1, 0, 1}
\* has just been refused as an invalid floor, with floors pending
C21_Witness ==
  /\ lastOp.op = "request" /\ lastOp.err = "InvalidFloor"
  /\ lastOp.floor > MaxFloor /\ lastOp.dir = 2
  /\ upSet # {} /\ activeTarget # None

\* ------------------------------------------------------------------------
\* C22: requestFloor with a valid floor and a direction outside {-1, 0, 1}
\* fails with the invalid-direction error and leaves currentFloor,
\* direction, both queues and activeTarget unchanged.
\* ------------------------------------------------------------------------
C22_InvalidDirectionRejected ==
  [][lastOp'.op = "request" /\ lastOp'.floor \in Floors
       /\ lastOp'.dir \notin {0 - 1, 0, 1}
       => lastOp'.err = "InvalidDirection" /\ State' = State]_vars

\* a request for a floor not yet queued, above the moving car, has just
\* been refused for its direction
C22_Witness ==
  /\ lastOp.op = "request" /\ lastOp.err = "InvalidDirection"
  /\ lastOp.floor > currentFloor /\ ~Queued(lastOp.floor)
  /\ direction = 1 /\ activeTarget # None

\* ------------------------------------------------------------------------
\* C23: step(n) with n < 1 fails with the invalid-step-count error before
\* any advance is made: currentFloor, direction, both queues and
\* activeTarget are unchanged.
\* ------------------------------------------------------------------------
C23_InvalidStepCountRejected ==
  [][lastOp'.op = "step" /\ lastOp'.steps < 1
       => lastOp'.err = "InvalidStepCount" /\ State' = State]_vars

\* step(0) has just been refused while the car had a target to move to
C23_Witness ==
  /\ lastOp.op = "step" /\ lastOp.err = "InvalidStepCount"
  /\ lastOp.steps = 0
  /\ activeTarget # None /\ activeTarget # currentFloor

\* ------------------------------------------------------------------------
\* C24: totality.  In every reachable state requestFloor with any floor of
\* [0, maxFloor] and any direction of {-1, 0, 1}, step(n) with any n >= 1,
\* reset and status complete without raising.  Every state is the outcome
\* of the calls made so far, and every call is made in every state: the
\* last call with such arguments reported no error, the library functions
\* were applied inside their domain (min and max to non-empty lists: MinOf
\* and MaxOf have no value elsewhere), and the fields it left and their
\* snapshot are those of a car (no None where a floor is computed with).
\* ------------------------------------------------------------------------
InRange(q) == \A i \in 1..Len(q) : q[i] \in Floors

\* s holds the fields of a car
WellFormed(s) ==
  /\ s.currentFloor \in Floors
  /\ s.direction \in {0 - 1, 0, 1}
  /\ s.upSet \subseteq Floors /\ s.downSet \subseteq Floors
  /\ InRange(s.upHeap) /\ InRange(Negated(s.downHeap))
  /\ s.activeTarget \in Floors \cup {None}

\* t is a snapshot
WellFormedSnapshot(t) ==
  /\ t.currentFloor \in Floors
  /\ t.direction \in {0 - 1, 0, 1}
  /\ InRange(t.queueUp) /\ InRange(t.queueDown)
  /\ t.activeTarget \in Floors \cup {None}

C24_Total ==
  /\ lastOp.op = "request" /\ lastOp.floor \in Floors
                           /\ lastOp.dir \in {0 - 1, 0, 1}
       => lastOp.err = "ok"
  /\ lastOp.op = "step" /\ lastOp.steps >= 1 => lastOp.err = "ok"
  /\ lastOp.op = "reset" => lastOp.err = "ok"
  /\ WellFormed(State)
  /\ WellFormedSnapshot(Status(State))

\* a step has just completed on an idle car with no target standing on the
\* top floor, which is in both queues
C24_Witness ==
  /\ lastOp.op = "step" /\ lastOp.err = "ok"
  /\ direction = 0 /\ activeTarget = None
  /\ currentFloor = MaxFloor
  /\ currentFloor \in upSet /\ currentFloor \in downSet

\* ------------------------------------------------------------------------
\* C25: bulk and sequential stepping agree: from every reachable state and
\* for every n >= 1, step(n) yields the same currentFloor, the same queues
\* and the same activeTarget as n successive step(1) calls.
\* ------------------------------------------------------------------------
\* the fields after n successive step(1) calls
RECURSIVE SequentialSteps(_, _)
SequentialSteps(s, n) ==
  IF n <= 0 THEN s ELSE SequentialSteps(StepState(s, 1), n - 1)

C25_BulkEqualsSequential ==
  [][lastOp'.op = "step" /\ lastOp'.err = "ok"
       => LET single == SequentialSteps(State, lastOp'.steps)
          IN /\ currentFloor' = single.currentFloor
             /\ upSet' = single.upSet /\ downSet' = single.downSet
             /\ upHeap' = single.upHeap /\ downHeap' = single.downHeap
             /\ activeTarget' = single.activeTarget]_vars

\* a request has just been made, and from this state two steps carry the
\* car two floors down, out of a queued floor, to its last target: step(2)
\* ends with direction Idle and two step(1) calls with direction Down
C25_Witness ==
  /\ lastOp.op = "request" /\ lastOp.err = "ok"
  /\ StepState(State, 2).currentFloor = currentFloor - 2
  /\ StepState(State, 2).downSet # downSet
  /\ StepState(State, 2).activeTarget = None
  /\ StepState(State, 2).direction = 0
  /\ SequentialSteps(State, 2).direction = 0 - 1
  /\ SequentialSteps(State, 2).currentFloor = currentFloor - 2

\* ------------------------------------------------------------------------
\* C26: in every reachable state currentFloor lies in [0, maxFloor], and so
\* do every floor in either queue and a non-null activeTarget.
\* ------------------------------------------------------------------------
C26_Bounds ==
  /\ 0 <= currentFloor /\ currentFloor <= MaxFloor
  /\ \A f \in upSet \cup downSet : 0 <= f /\ f <= MaxFloor
  /\ \A i \in 1..Len(upHeap) : 0 <= upHeap[i] /\ upHeap[i] <= MaxFloor
  /\ \A i \in 1..Len(downHeap) :
       0 <= 0 - downHeap[i] /\ 0 - downHeap[i] <= MaxFloor
  /\ activeTarget # None => 0 <= activeTarget /\ activeTarget <= MaxFloor

\* the car stands on the top floor, which is queued, with floor 0 queued
\* and targeted
C26_Witness ==
  /\ currentFloor = MaxFloor /\ Queued(MaxFloor)
  /\ Queued(0) /\ activeTarget = 0

\* ------------------------------------------------------------------------
\* C28: a request behind the moving car.  As claimed: while direction is Up
\* and activeTarget T is above currentFloor, a requestFloor call for a floor
\* below currentFloor (external up, external down or internal) leaves
\* activeTarget equal to T; symmetrically for direction Down and a floor
\* above currentFloor.  As amended: after such a call activeTarget is the
\* floor the Scheduler selects in the state before the call, which is still
\* ahead of the car; it is T when T is that selection, and another floor
\* ahead when T was chosen while the car was idle and a step has since set
\* the direction.
\* ------------------------------------------------------------------------
\* the transition is a successful request for a floor behind the car, which
\* moves toward its target
RequestBehind ==
  /\ Requested
  /\ MovingToTarget
  /\ \/ direction = 1 /\ lastOp'.floor < currentFloor
     \/ direction = 0 - 1 /\ lastOp'.floor > currentFloor

C28_RequestBehindKeepsTarget ==
  [][RequestBehind => activeTarget' = activeTarget]_vars

C28_RequestBehindKeepsSelection ==
  [][RequestBehind
       => /\ activeTarget' = NextTarget(State)
          /\ activeTarget' # None
          /\ direction = 1 => activeTarget' > currentFloor
          /\ direction = 0 - 1 => activeTarget' < currentFloor
          /\ activeTarget = NextTarget(State) => activeTarget' = activeTarget]_vars

\* an external up request for a floor above the descending car has just
\* been queued, and the target is still below the car
C28_Witness ==
  /\ lastOp.op = "request" /\ lastOp.err = "ok" /\ lastOp.dir = 1
  /\ direction = 0 - 1
  /\ lastOp.floor > currentFloor /\ lastOp.floor \in upSet
  /\ activeTarget # None /\ activeTarget < currentFloor

\* ------------------------------------------------------------------------
\* C29: queue mutation is confined.  requestFloor, target selection
\* included, removes no floor from either queue and adds at most one floor
\* to at most one queue; step inserts no floor into either queue.  Hence a
\* floor that was removed is queued again only by a new requestFloor call.
\* ------------------------------------------------------------------------
\* the floors held by a heap
FloorsOf(heap) == {heap[i] : i \in 1..Len(heap)}

C30_IdleStep ==
  [][lastOp'.op = "step" /\ lastOp'.err = "ok" /\ activeTarget = None
       => /\ currentFloor' = currentFloor
          /\ upSet' = upSet /\ downSet' = downSet
          /\ upHeap' = upHeap /\ downHeap' = downHeap
          /\ activeTarget' = None
          /\ direction' = 0]_vars

\* a single step taken with no target has just set the direction to Idle:
\* the car stands on the floor it arrived at, which is still queued
C30_Witness ==
  /\ lastOp.op = "step" /\ lastOp.steps = 1
  /\ activeTarget = None /\ direction = 0
  /\ currentFloor > 0 /\ Queued(currentFloor)

\* ------------------------------------------------------------------------
\* C27: the operations on the shared car are serialized: under concurrent
\* calls of the request, step and reset handlers no state has a floor in a
\* membership set that is missing from its heap, and once the handlers have
\* returned the state is one that calls made one after the other produce:
\* each heap holds exactly the floors of its set, once each.
\* ------------------------------------------------------------------------
NoHandlerRunning == \A t \in Threads : threads[t].pc = "idle"

\* holds of every state the calls reach when made one after the other
HeapsMatchSets ==
  /\ FloorsOf(upHeap) = upSet /\ Len(upHeap) = Cardinality(upSet)
  /\ FloorsOf(Negated(downHeap)) = downSet
  /\ Len(downHeap) = Cardinality(downSet)

C27_Serialized ==
  /\ upSet \subseteq FloorsOf(upHeap)
  /\ downSet \subseteq FloorsOf(Negated(downHeap))
  /\ NoHandlerRunning => HeapsMatchSets

\* ------------------------------------------------------------------------
\* C31: after a step(1) in which currentFloor changed, direction is the
\* direction of that move: Up if currentFloor increased by one, Down if it
\* decreased by one, the step that arrives at the target included.
\* ------------------------------------------------------------------------
C31_DirectionOfMove ==
  [][SingleStep /\ currentFloor' # currentFloor
       => \/ currentFloor' = currentFloor + 1 /\ direction' = 1
          \/ currentFloor' = currentFloor - 1 /\ direction' = 0 - 1]_vars

\* a request has just been made to a car that is not moving down, and the
\* next step(1) moves it one floor down onto its last target
C31_Witness ==
  /\ lastOp.op = "request" /\ lastOp.err = "ok"
  /\ direction # 0 - 1
  /\ activeTarget = currentFloor - 1
  /\ StepState(State, 1).currentFloor = currentFloor - 1
  /\ StepState(State, 1).activeTarget = None
  /\ StepState(State, 1).direction = 0 - 1

\* ------------------------------------------------------------------------
\* C32: in every state reached by calls made one after the other the
\* snapshot's queueUp is strictly ascending and queueDown strictly
\* descending, and they list exactly the floors held in the up and down
\* heaps that the Scheduler reads: the heap and the membership set of each
\* queue contain the same floors, each once.
\* ------------------------------------------------------------------------
StrictlyAscending(q) == \A i \in 1..(Len(q) - 1) : q[i] < q[i + 1]

StrictlyDescending(q) == \A i \in 1..(Len(q) - 1) : q[i] > q[i + 1]

C32_SnapshotListsHeaps ==
  LET t == Status(State)
  IN /\ StrictlyAscending(t.queueUp)
     /\ StrictlyDescending(t.queueDown)
     /\ FloorsOf(t.queueUp) = FloorsOf(upHeap)
     /\ FloorsOf(t.queueDown) = FloorsOf(Negated(downHeap))
     /\ Len(t.queueUp) = Len(upHeap)
     /\ Len(t.queueDown) = Len(downHeap)
     /\ NoDuplicate(upHeap) /\ NoDuplicate(downHeap)
     /\ upSet = FloorsOf(upHeap)
     /\ downSet = FloorsOf(Negated(downHeap))

\* a step has just taken the car off a floor of the down queue, and each
\* queue still holds two floors or more
C32_Witness ==
  /\ lastOp.op = "step" /\ lastOp.err = "ok"
  /\ direction = 0 - 1
  /\ currentFloor + 1 \notin downSet
  /\ Len(Status(State).queueUp) >= 2
  /\ Len(Status(State).queueDown) >= 2

\* ------------------------------------------------------------------------
\* C33: with no further requestFloor or reset calls the car changes floor
\* only finitely many times: under repeated step() calls currentFloor is
\* eventually constant forever.
\* ------------------------------------------------------------------------
C33_EventuallyStays ==
  <>[]OnlySteps => <>[][currentFloor' = currentFloor]_vars

\* ------------------------------------------------------------------------
\* C34: in every reachable state a non-null activeTarget is a member of
\* the up queue or of the down queue: the car never drives toward a floor
\* that is not pending.
\* ------------------------------------------------------------------------
C34_TargetIsPending ==
  activeTarget # None
    => /\ Queued(activeTarget)
       /\ \/ activeTarget \in FloorsOf(upHeap)
          \/ activeTarget \in FloorsOf(Negated(downHeap))

\* a step has just moved the car up toward a target further up that is
\* pending in the down queue only, while the up queue holds a floor too
C34_Witness ==
  /\ lastOp.op = "step" /\ lastOp.err = "ok"
  /\ direction = 1
  /\ activeTarget # None /\ activeTarget > currentFloor
  /\ activeTarget \in downSet /\ activeTarget \notin upSet
  /\ upSet # {}

\* ------------------------------------------------------------------------
\* C35: in every reachable state where activeTarget is none, every floor
\* still contained in either queue equals currentFloor: no request for a
\* floor other than the car's own is left pending without an active target.
\* ------------------------------------------------------------------------
C35_NoTargetOnlyOwnFloor ==
  activeTarget = None
    => /\ upSet \cup downSet \subseteq {currentFloor}
       /\ FloorsOf(upHeap) \cup FloorsOf(Negated(downHeap))
            \subseteq {currentFloor}

\* a request for the car's own floor has just made the Scheduler select
\* again while the car points up and its floor is pending in the down
\* queue: nothing is selected
C35_Witness ==
  /\ lastOp.op = "request" /\ lastOp.err = "ok"
  /\ lastOp.floor = currentFloor /\ lastOp.dir = 0
  /\ direction = 1
  /\ activeTarget = None
  /\ currentFloor \in downSet

\* ------------------------------------------------------------------------
\* C36: a floor leaves a queue only through a step in which the car
\* departs from that very floor in the direction matching the queue (upward
\* for the up queue, downward for the down queue), or through reset; each
\* single advance removes at most one floor, and no request is dropped
\* while the car is on a different floor.  The states a step(n) passes
\* through are those that n step(1) calls reach, so the single advances are
\* the step(1) transitions.
\* ------------------------------------------------------------------------
\* the floors that leave the up queue, and the down queue, in the
\* transition; each heap holds the floors of its membership set (C32)
LeftUp == upSet \ upSet'

LeftDown == downSet \ downSet'

====
